---- MODULE Spec2Model ----
(***************************************************************************)
(* Model of screen_stocks.py: the indicator functions (calculate_ema,      *)
(* calculate_rsi, calculate_adx), the per-ticker pipeline screen_stock,    *)
(* the thread-pool orchestrator screen_stocks and the command line main.   *)
(*                                                                         *)
(* Numbers.  Prices and volumes of a bar are whole numbers >= 0 (or NaN,   *)
(* or +inf for a corrupted bar), and every value stays below 2^10.  A      *)
(* finite float the program holds is kept as one integer: the even value   *)
(* 2k is the double written k/Scale (the double nearest to that decimal),  *)
(* the odd value 2k+1 any double strictly between the doubles written      *)
(* k/Scale and (k+1)/Scale.  The order of the floats is the order of these *)
(* integers, so a comparison with a threshold (25.0, 50.0, 70.0, a whole   *)
(* price) is exact.  NaN, PosInf and NegInf are three integers outside the *)
(* range.  The ewm mean is computed in IEEE-754 doubles, operation by      *)
(* operation as the kernel does (round to nearest, ties to even, no fused  *)
(* multiply-add).  The rolling means are quotients of whole numbers, which *)
(* a correctly rounded division gives as the real quotient does.  The RSI  *)
(* and the ADX are computed from the real values of their terms (the DX    *)
(* terms kept to 16 decimals): the program's rounding errors, of the order *)
(* of 10^-13, are taken not to move a value across a multiple of 1/Scale.  *)
(* Sequences are 1-based: the program's index i is i+1 here.               *)
(***************************************************************************)
EXTENDS Integers, Sequences, FiniteSets, TLC

\* ------------------------------------------------------------------------
\* Floating point values
\* ------------------------------------------------------------------------
Scale == 10^6
PosInf == 2147483647
NegInf == -PosInf
NaN == NegInf - 1

IsNaN(x) == x = NaN
IsInf(x) == x = PosInf \/ x = NegInf
\* np.isfinite
isfinite(x) == ~IsNaN(x) /\ ~IsInf(x)

\* IEEE subtraction a - b
FSub(a, b) ==
    IF IsNaN(a) \/ IsNaN(b) THEN NaN
    ELSE IF IsInf(a) /\ IsInf(b) THEN (IF a = b THEN NaN ELSE a)
    ELSE IF IsInf(a) THEN a
    ELSE IF IsInf(b) THEN -b
    ELSE a - b

\* IEEE negation
FNeg(a) == IF IsNaN(a) THEN NaN ELSE -a

\* abs()
FAbs(a) == IF IsNaN(a) THEN NaN ELSE IF a < 0 THEN -a ELSE a

\* a > b as the floats compare: false when either side is NaN
FGt(a, b) == ~IsNaN(a) /\ ~IsNaN(b) /\ a > b

\* a < b as the floats compare
FLt(a, b) == ~IsNaN(a) /\ ~IsNaN(b) /\ a < b

\* max over the non-NaN values of a row (DataFrame.max(axis=1) skips NaN)
RowMax(S) ==
    LET V == {x \in S : ~IsNaN(x)}
    IN  IF V = {} THEN NaN ELSE CHOOSE m \in V : \A x \in V : x <= m

\* the k decimals of r/d that follow the integer part, 0 <= r < d
RECURSIVE FracDigits(_, _, _)
FracDigits(r, d, k) ==
    IF k = 0 THEN 0
    ELSE ((10 * r) \div d) * 10^(k - 1) + FracDigits((10 * r) % d, d, k - 1)

\* what is left of r/d after its first k decimals
RECURSIVE RemAfter(_, _, _)
RemAfter(r, d, k) == IF k = 0 THEN r ELSE RemAfter((10 * r) % d, d, k - 1)

\* the float n / d, n >= 0 and d > 0 whole numbers
FixDiv(n, d) ==
    2 * ((n \div d) * Scale + FracDigits(n % d, d, 6))
    + (IF RemAfter(n % d, d, 6) = 0 THEN 0 ELSE 1)

\* float(x) of a whole number
ToFix(x) == IF isfinite(x) THEN 2 * Scale * x ELSE x

\* ------------------------------------------------------------------------
\* Numbers kept to 16 decimals: the sequence of the base-100 digits, most
\* significant first, six of whole part and eight of fraction; <<>> is NaN
\* ------------------------------------------------------------------------
DecFromInt(n) ==
    <<0, n \div 100000000, (n \div 1000000) % 100, (n \div 10000) % 100,
      (n \div 100) % 100, n % 100, 0, 0, 0, 0, 0, 0, 0, 0>>

RECURSIVE DecMulFrom(_, _, _, _, _)
DecMulFrom(a, m, i, carry, acc) ==
    IF i = 0 THEN acc
    ELSE LET v == a[i] * m + carry
         IN  DecMulFrom(a, m, i - 1, v \div 100, <<v % 100>> \o acc)

\* a * m, m a whole number below 2*10^7
DecMulSmall(a, m) == IF a = <<>> THEN <<>> ELSE DecMulFrom(a, m, Len(a), 0, <<>>)

RECURSIVE DecAddFrom(_, _, _, _, _)
DecAddFrom(a, b, i, carry, acc) ==
    IF i = 0 THEN acc
    ELSE LET v == a[i] + b[i] + carry
         IN  DecAddFrom(a, b, i - 1, v \div 100, <<v % 100>> \o acc)

\* a + b, NaN when either is
DecAdd(a, b) ==
    IF a = <<>> \/ b = <<>> THEN <<>> ELSE DecAddFrom(a, b, Len(a), 0, <<>>)

RECURSIVE DecDivFrom(_, _, _, _, _)
DecDivFrom(a, d, i, rem, acc) ==
    IF i > Len(a) THEN acc
    ELSE LET v == rem * 100 + a[i]
         IN  DecDivFrom(a, d, i + 1, v % d, Append(acc, v \div d))

\* a / d, d a whole number below 2*10^7, cut after the 16th decimal
DecDivSmall(a, d) == IF a = <<>> THEN <<>> ELSE DecDivFrom(a, d, 1, 0, <<>>)

RECURSIVE DecSumRange(_, _, _)
DecSumRange(s, lo, hi) ==
    IF lo = hi THEN s[lo] ELSE DecAdd(s[lo], DecSumRange(s, lo + 1, hi))

\* the float a stands for
DecToFix(a) ==
    IF a = <<>> THEN NaN ELSE
    LET whole == ((((a[1] * 100 + a[2]) * 100 + a[3]) * 100 + a[4]) * 100 + a[5]) * 100 + a[6]
        units == whole * Scale + a[7] * 10000 + a[8] * 100 + a[9]
    IN  2 * units + (IF \E i \in 10..14 : a[i] # 0 THEN 1 ELSE 0)

\* ------------------------------------------------------------------------
\* pandas Series operations
\* ------------------------------------------------------------------------
\* a series as a tuple of values
Series(f) == f \o <<>>

\* Series.diff()
diff(s) == Series([i \in 1..Len(s) |-> IF i = 1 THEN NaN ELSE FSub(s[i], s[i - 1])])

\* Series.shift()
shift(s) == Series([i \in 1..Len(s) |-> IF i = 1 THEN NaN ELSE s[i - 1]])

RECURSIVE SumRange(_, _, _)
SumRange(s, lo, hi) == IF lo > hi THEN 0 ELSE s[lo] + SumRange(s, lo + 1, hi)

\* the rolling window ending at i holds `window` finite values
\* (rolling turns +-inf into NaN, and min_periods is the window)
WindowOk(s, window, i) ==
    i >= window /\ \A j \in (i - window + 1)..i : isfinite(s[j])

\* Series.rolling(window).sum()
rolling_sum(s, window) ==
    Series([i \in 1..Len(s) |->
        IF WindowOk(s, window, i) THEN SumRange(s, i - window + 1, i) ELSE NaN])

\* Series.rolling(window).mean() of a series of whole numbers >= 0
rolling_mean(s, window) ==
    LET t == rolling_sum(s, window)
    IN  Series([i \in 1..Len(s) |-> IF IsNaN(t[i]) THEN NaN ELSE FixDiv(t[i], window)])

\* ------------------------------------------------------------------------
\* Natural numbers of any size, as the sequence of their base-2^14 digits,
\* the least significant first
\* ------------------------------------------------------------------------
Base == 16384
DigitBits == 14

NatDigit(a, i) == IF i >= 1 /\ i <= Len(a) THEN a[i] ELSE 0

RECURSIVE NatTrim(_)
NatTrim(a) ==
    IF Len(a) > 0 /\ a[Len(a)] = 0 THEN NatTrim(SubSeq(a, 1, Len(a) - 1)) ELSE a

RECURSIVE IntBitLen(_)
IntBitLen(n) == IF n = 0 THEN 0 ELSE 1 + IntBitLen(n \div 2)

\* the number of binary digits of t, whose top digit is not 0
NatTopLen(t) ==
    IF Len(t) = 0 THEN 0 ELSE DigitBits * (Len(t) - 1) + IntBitLen(t[Len(t)])

\* the number of binary digits of a
NatBitLen(a) == NatTopLen(NatTrim(a))

NatFromInt(n) == <<n % Base, (n \div Base) % Base, n \div (Base * Base)>>

NatToInt(a) == NatDigit(a, 1) + Base * (NatDigit(a, 2) + Base * NatDigit(a, 3))

\* a + sign * b (a >= b when sign = -1), digit i onwards
RECURSIVE NatAddFrom(_, _, _, _, _, _)
NatAddFrom(a, b, sign, i, carry, acc) ==
    IF i > Len(a) /\ i > Len(b)
    THEN (IF carry = 0 THEN acc ELSE Append(acc, carry))
    ELSE LET v == NatDigit(a, i) + sign * NatDigit(b, i) + carry
         IN  NatAddFrom(a, b, sign, i + 1, v \div Base, Append(acc, v % Base))

NatAdd(a, b) == NatAddFrom(a, b, 1, 1, 0, <<>>)

\* a - b, a >= b
NatSub(a, b) == NatAddFrom(a, b, -1, 1, 0, <<>>)

RECURSIVE NatGeqFrom(_, _, _)
NatGeqFrom(a, b, i) ==
    IF i = 0 THEN TRUE
    ELSE IF NatDigit(a, i) # NatDigit(b, i) THEN NatDigit(a, i) > NatDigit(b, i)
    ELSE NatGeqFrom(a, b, i - 1)

\* a >= b
NatGeq(a, b) == NatGeqFrom(a, b, IF Len(a) > Len(b) THEN Len(a) ELSE Len(b))

\* the sum of the products a[i] * b[j] with i + j = k + 1, from i onwards
RECURSIVE ColSum(_, _, _, _)
ColSum(a, b, k, i) ==
    IF i > Len(a) \/ i > k THEN 0
    ELSE a[i] * NatDigit(b, k + 1 - i) + ColSum(a, b, k, i + 1)

RECURSIVE NatMulFrom(_, _, _, _, _)
NatMulFrom(a, b, k, carry, acc) ==
    IF k > Len(a) + Len(b) THEN acc
    ELSE LET v == ColSum(a, b, k, 1) + carry
         IN  NatMulFrom(a, b, k + 1, v \div Base, Append(acc, v % Base))

\* a * b, a and b of at most four digits
NatMul(a, b) == NatMulFrom(a, b, 1, 0, <<>>)

\* a * 2^n
NatShl(a, n) ==
    LET q == n \div DigitBits
        r == n % DigitBits
    IN  Series([i \in 1..(Len(a) + q + 1) |->
            IF i <= q THEN 0
            ELSE (NatDigit(a, i - q) % 2^(DigitBits - r)) * 2^r
                 + (NatDigit(a, i - q - 1) \div 2^(DigitBits - r))])

\* a \div 2^n
NatShr(a, n) ==
    LET q == n \div DigitBits
        r == n % DigitBits
    IN  IF q >= Len(a) THEN <<>>
        ELSE Series([i \in 1..(Len(a) - q) |->
                (a[i + q] \div 2^r) + (NatDigit(a, i + q + 1) % 2^r) * 2^(DigitBits - r)])

\* 2^n divides a
NatLowZero(a, n) ==
    /\ \A i \in 1..Len(a) : i <= n \div DigitBits => a[i] = 0
    /\ NatDigit(a, (n \div DigitBits) + 1) % 2^(n % DigitBits) = 0

\* ------------------------------------------------------------------------
\* The doubles >= 0 of the ewm kernel: <<m, e>> is m * 2^e, m a natural of
\* four digits with 2^52 <= m < 2^53; zero is <<0, 0>>.  Every operation
\* rounds its exact result to the nearest double, ties to the even one.
\* (No value here is large or small enough to overflow or go subnormal.)
\* ------------------------------------------------------------------------
MantBits == 53

Mant(a) == <<NatDigit(a, 1), NatDigit(a, 2), NatDigit(a, 3), NatDigit(a, 4)>>

DblZero == <<<<0, 0, 0, 0>>, 0>>

\* 1.0 = 2^52 * 2^-52
DblOne == <<<<0, 0, 0, 1024>>, -52>>

\* q is the 53 or, after a carry, 54 digits of a rounded mantissa
DblCarry(q, e) ==
    IF NatBitLen(q) > MantBits THEN <<Mant(NatShr(q, 1)), e + 1>>
    ELSE <<Mant(q), e>>

\* h is the first 54 binary digits of the exact result and `rest` says
\* that more follow that are not all 0: up when the 54th digit is 1 and
\* either more follows or the 53rd digit is odd
DblRoundCut(h, e, rest) ==
    DblCarry(IF h[1] % 2 = 1 /\ (rest \/ (h[1] \div 2) % 2 = 1)
             THEN NatAdd(NatShr(h, 1), <<1>>)
             ELSE NatShr(h, 1), e)

\* DblRound for m of len binary digits
DblRoundLen(m, e, sticky, len) ==
    IF len = 0 THEN DblZero
    ELSE IF len <= MantBits
    THEN <<Mant(NatShl(m, MantBits - len)), e - (MantBits - len)>>
    ELSE DblRoundCut(NatShr(m, len - MantBits - 1), e + len - MantBits,
                     sticky \/ ~NatLowZero(m, len - MantBits - 1))

\* the double nearest to m * 2^e, or to a number a little above it when
\* `sticky` says the exact result has digits below those of m
DblRound(m, e, sticky) == DblRoundLen(m, e, sticky, NatBitLen(m))

\* float(n) of a whole number n >= 0
DblFromInt(n) == DblRound(NatFromInt(n), 0, FALSE)

\* a * b
DblMul(a, b) ==
    IF a = DblZero \/ b = DblZero THEN DblZero
    ELSE IF a = DblOne THEN b
    ELSE IF b = DblOne THEN a
    ELSE DblRound(NatMul(a[1], b[1]), a[2] + b[2], FALSE)

\* a + b, neither 0 and the exponent of a not below that of b; past
\* 2 + MantBits binary places b cannot move the rounding of a
DblAddOrdered(a, b) ==
    IF a[2] - b[2] > MantBits + 2 THEN a
    ELSE DblRound(NatAdd(NatShl(a[1], a[2] - b[2]), b[1]), b[2], FALSE)

\* a + b
DblAdd(a, b) ==
    IF a = DblZero THEN b
    ELSE IF b = DblZero THEN a
    ELSE IF a[2] < b[2] THEN DblAddOrdered(b, a)
    ELSE DblAddOrdered(a, b)

\* a - b, a >= b
DblSub(a, b) ==
    IF b = DblZero THEN a
    ELSE DblRound(NatSub(NatShl(a[1], a[2] - b[2]), b[1]), b[2], FALSE)

\* n more binary digits of r / d, r < d: <<digits, remainder>> after the
\* digits q already found
RECURSIVE DivBits(_, _, _, _)
DivBits(r, d, n, q) ==
    IF n = 0 THEN <<q, r>>
    ELSE LET r2 == NatAdd(r, r)
         IN  IF NatGeq(r2, d) THEN DivBits(NatSub(r2, d), d, n - 1, 2 * q + 1)
             ELSE DivBits(r2, d, n - 1, 2 * q)

\* k more base-2^14 digits of r / d, r < d: <<digits, remainder>>, the
\* digits least significant first
RECURSIVE DivDigits(_, _, _, _)
\* DivDigits goes on with the digit and the remainder qr it was given
DivDigit(qr, d, k, acc) == DivDigits(qr[2], d, k - 1, <<qr[1]>> \o acc)

DivDigits(r, d, k, acc) ==
    IF k = 0 THEN <<acc, r>>
    ELSE DivDigit(DivBits(r, d, DigitBits, 0), d, k, acc)

\* the double of the quotient qr[1], 57 binary digits, and the remainder
\* qr[2]
DblDivRound(qr, e) == DblRound(qr[1], e, NatBitLen(qr[2]) # 0)

\* a / b when the mantissa of a has to be doubled `lead` times to reach
\* that of b
DblDivLead(a, b, lead) ==
    DblDivRound(DivDigits(NatSub(NatShl(a[1], lead), b[1]), b[1], 4, <<1>>),
                a[2] - b[2] - lead - 4 * DigitBits)

\* a / b, b > 0: the leading 1 of the quotient and 56 binary digits after
\* it, and whether anything is left
DblDiv(a, b) ==
    IF a = DblZero THEN DblZero
    ELSE IF b = DblOne THEN a
    ELSE DblDivLead(a, b, IF NatGeq(a[1], b[1]) THEN 0 ELSE 1)

\* a / 2
DblHalf(a) == IF a = DblZero THEN a ELSE <<a[1], a[2] - 1>>

\* a < b
DblLess(a, b) ==
    IF b = DblZero THEN FALSE
    ELSE IF a = DblZero THEN TRUE
    ELSE IF a[2] # b[2] THEN a[2] < b[2]
    ELSE a # b /\ NatGeq(b[1], a[1])

\* the double written k / Scale: float(k) / Scale
DblOfFix(k) == DblDiv(DblFromInt(k), DblFromInt(Scale))

\* a beside the double g written k / Scale
FixBeside(a, k, g) ==
    IF a = g THEN 2 * k ELSE IF DblLess(g, a) THEN 2 * k + 1 ELSE 2 * k - 1

FixNearest(a, k) == FixBeside(a, k, DblOfFix(k))

\* a * Scale has the whole part k and a fraction that is not 0, of which
\* top is the first 16 binary places.  a may be the double written
\* k / Scale or (k+1) / Scale when it is within half a unit of its last
\* place of it: a fraction that is not all 0 or all 1 there is too far.
FixOfParts(a, k, top) ==
    IF top = 0 THEN FixNearest(a, k)
    ELSE IF top = 65535 THEN FixNearest(a, k + 1)
    ELSE 2 * k + 1

\* the first 16 binary places of the fraction, from the digits below them
\* cut off
FixOfCut(a, k, low) ==
    FixOfParts(a, k, (NatDigit(low, 1) + Base * (NatDigit(low, 2) % 4)) % 65536)

\* p = a * Scale * 2^places
FixOfProduct(a, p, places) ==
    IF NatLowZero(p, places) THEN 2 * NatToInt(NatShr(p, places))
    ELSE FixOfCut(a, NatToInt(NatShr(p, places)), NatShr(p, places - 16))

\* the float a stands for, a < 2^10; <<>> is NaN
DblToFix(a) ==
    IF a = <<>> THEN NaN
    ELSE FixOfProduct(a, NatMul(a[1], NatFromInt(Scale)), -a[2])

\* ------------------------------------------------------------------------
\* calculate_ema: Series.ewm(span=period, adjust=False).mean()
\* ------------------------------------------------------------------------
\* alpha = 1. / (1. + com) with com = (span - 1) / 2.
EwmAlpha(period) ==
    DblDiv(DblOne, DblAdd(DblOne, DblHalf(DblFromInt(period - 1))))

\* weighted = (old_wt * weighted + new_wt * cur) / (old_wt + new_wt), left
\* alone when weighted == cur; all four are doubles
EwmBlend(weighted, cur, old_wt, new_wt) ==
    IF weighted = cur THEN weighted
    ELSE DblDiv(DblAdd(DblMul(old_wt, weighted), DblMul(new_wt, cur)),
                DblAdd(old_wt, new_wt))

\* the step of the ewm loop on an observation cur, a double
EwmObserve(st, cur, old_wt_factor, new_wt) ==
    IF st[1] = <<>> THEN <<cur, st[2]>>
    ELSE <<EwmBlend(st[1], cur, DblMul(st[2], old_wt_factor), new_wt), DblOne>>

\* one step of the ewm loop on the value cur of the series; st is
\* <<weighted, old_wt>>, weighted <<>> until the first observation.  The
\* window functions are handed the values with +-inf turned into NaN: an
\* infinite value is a missing one.  old_wt is multiplied by old_wt_factor
\* at every value, missing or not, and is 1 again after an observation.
EwmStep(st, cur, old_wt_factor, new_wt) ==
    IF isfinite(cur) THEN EwmObserve(st, DblFromInt(cur), old_wt_factor, new_wt)
    ELSE IF st[1] = <<>> THEN st
    ELSE <<st[1], DblMul(st[2], old_wt_factor)>>

\* the row the loop writes in state nx, and nx
EwmRow(nx) == <<<<DblToFix(nx[1])>>, nx>>

\* the rows of the first half followed by those of the second
EwmJoin(values, rest) == <<values \o rest[1], rest[2]>>

\* the loop over the rows lo..hi of the series, entered with the state st:
\* <<the values it writes, the state it ends with>>.  The rows are taken in
\* order, the first half before the second.
RECURSIVE EwmFrom(_, _, _, _, _, _)
EwmSecond(series, old_wt_factor, new_wt, lo, hi, first) ==
    EwmJoin(first[1], EwmFrom(series, old_wt_factor, new_wt, lo, hi, first[2]))

EwmHalves(series, old_wt_factor, new_wt, lo, mid, hi, st) ==
    EwmSecond(series, old_wt_factor, new_wt, mid + 1, hi,
              EwmFrom(series, old_wt_factor, new_wt, lo, mid, st))

EwmFrom(series, old_wt_factor, new_wt, lo, hi, st) ==
    IF lo > hi THEN <<<<>>, st>>
    ELSE IF lo = hi THEN EwmRow(EwmStep(st, series[lo], old_wt_factor, new_wt))
    ELSE EwmHalves(series, old_wt_factor, new_wt, lo, (lo + hi) \div 2, hi, st)

\* the loop over the whole series with alpha = new_wt
EwmMean(series, new_wt) ==
    EwmFrom(series, DblSub(DblOne, new_wt), new_wt, 1, Len(series),
            <<<<>>, DblOne>>)[1]

calculate_ema(series, period) == EwmMean(series, EwmAlpha(period))

\* ------------------------------------------------------------------------
\* calculate_rsi
\* ------------------------------------------------------------------------
\* delta.where(delta > 0, 0)
GainOf(delta) == Series([i \in 1..Len(delta) |-> IF FGt(delta[i], 0) THEN delta[i] ELSE 0])

\* -delta.where(delta < 0, 0)
LossOf(delta) == Series([i \in 1..Len(delta) |-> FNeg(IF FLt(delta[i], 0) THEN delta[i] ELSE 0)])

\* 100 - 100/(1 + rs) with rs = (G/period) / (L/period + 1e-10), G and L the
\* window sums of the gains and losses: 100*G / (G + L + period*1e-10).
\* With whole G, L and a period below 100 the 1e-10 term lowers the value
\* by less than 1/Scale and by more than nothing: the value lies strictly
\* below 100*G/(G + L), in the same multiple of 1/Scale unless that
\* quotient is one exactly.
RsiValue(G, L) ==
    IF G = 0 THEN 0
    ELSE LET q == FixDiv(100 * G, G + L)
         IN  IF q % 2 = 0 THEN q - 1 ELSE q

calculate_rsi(series, period) ==
    LET delta == diff(series)
        gain == rolling_sum(GainOf(delta), period)
        loss == rolling_sum(LossOf(delta), period)
    IN  Series([i \in 1..Len(series) |->
            IF IsNaN(gain[i]) \/ IsNaN(loss[i]) THEN NaN
            ELSE RsiValue(gain[i], loss[i])])

\* ------------------------------------------------------------------------
\* calculate_adx
\* ------------------------------------------------------------------------
\* plus_dm.where((plus_dm > minus_dm) & (plus_dm > 0), 0)
PlusDM(up, down) == IF FGt(up, down) /\ FGt(up, 0) THEN up ELSE 0

\* minus_dm.where((minus_dm > plus_dm) & (minus_dm > 0), 0), where plus_dm
\* is by now the series the line before has rewritten
MinusDM(up, down) ==
    IF FGt(down, PlusDM(up, down)) /\ FGt(down, 0) THEN down ELSE 0

plus_dm(high, low) ==
    LET up == diff(high)
        dl == diff(low)
        down == Series([i \in 1..Len(low) |-> FNeg(dl[i])])
    IN  Series([i \in 1..Len(high) |-> PlusDM(up[i], down[i])])

minus_dm(high, low) ==
    LET up == diff(high)
        dl == diff(low)
        down == Series([i \in 1..Len(low) |-> FNeg(dl[i])])
    IN  Series([i \in 1..Len(high) |-> MinusDM(up[i], down[i])])

\* pd.concat([tr1, tr2, tr3], axis=1).max(axis=1)
true_range(high, low, close) ==
    LET prev_close == shift(close)
    IN  Series([i \in 1..Len(high) |->
            RowMax({FSub(high[i], low[i]),
                    FAbs(FSub(high[i], prev_close[i])),
                    FAbs(FSub(low[i], prev_close[i]))})])

\* 100 * (dm_sum / tr_sum) as the fraction <<numerator, denominator>>;
\* <<0, 0>> is NaN and <<1, 0>> is +inf
DirectionalIndicator(dm_sum, tr_sum) ==
    IF IsNaN(dm_sum) \/ IsNaN(tr_sum) THEN <<0, 0>>
    ELSE IF tr_sum = 0 THEN (IF dm_sum = 0 THEN <<0, 0>> ELSE <<1, 0>>)
    ELSE <<100 * dm_sum, tr_sum>>

\* 100 * abs(plus_di - minus_di) / (plus_di + minus_di + 0.001), kept to 16
\* decimals; both indicators divide by the same true-range sum.  An
\* infinite indicator gives inf/inf, which is NaN.
DX(pdi, mdi) ==
    IF pdi[2] = 0 \/ mdi[2] = 0 THEN <<>>
    ELSE LET a == pdi[1]
             b == mdi[1]
             d == IF a > b THEN a - b ELSE b - a
         IN  DecDivSmall(DecMulSmall(DecFromInt(d), 100000), 1000 * (a + b) + pdi[2])

calculate_adx(high, low, close, period) ==
    LET pdm == rolling_sum(plus_dm(high, low), period)
        mdm == rolling_sum(minus_dm(high, low), period)
        tr == rolling_sum(true_range(high, low, close), period)
        dx == Series([i \in 1..Len(high) |->
                  DX(DirectionalIndicator(pdm[i], tr[i]),
                     DirectionalIndicator(mdm[i], tr[i]))])
    IN  Series([i \in 1..Len(high) |->
            IF i >= period
            THEN DecToFix(DecDivSmall(DecSumRange(dx, i - period + 1, i), period))
            ELSE NaN])

\* ------------------------------------------------------------------------
\* Program constants
\* ------------------------------------------------------------------------
MinBars == 50
EmaPeriod == 50
RsiPeriod == 14
AdxPeriod == 14
VolPeriod == 20
RsiLow == 50
RsiHigh == 70
AdxMin == 25

\* ------------------------------------------------------------------------
\* screen_stock
\* ------------------------------------------------------------------------
\* a ticker is <<name, suffixed>>: suffixed says the string ends in ".NS"
ticker_symbol(ticker) == <<ticker[1], TRUE>>

\* 2^k mod 25
Pow2Mod25(k) == (2^(k % 20)) % 25

\* the e with 2^e <= q/200 < 2^(e+1)
RECURSIVE Log2Up(_, _)
Log2Up(q, e) == IF 200 * 2^(e + 1) <= q THEN Log2Up(q, e + 1) ELSE e
RECURSIVE Log2Down(_, _)
Log2Down(q, k) == IF q * 2^k >= 200 THEN -k ELSE Log2Down(q, k + 1)
Log2Of200th(q) == IF q >= 200 THEN Log2Up(q, 0) ELSE Log2Down(q, 1)

\* round(x, 2) where x is the double nearest to u/Scale, u ending in 5000:
\* x is q/200 with q odd.  It is that number itself when 25 divides q
\* (then the tie goes to the even hundredth); otherwise the double lies
\* above or below it as q * 2^(49-e) mod 25 says, and round() follows.
TieRoundsUp(u) ==
    LET q == u \div 5000
    IN  IF q % 25 = 0 THEN (u \div 10000) % 2 = 1
        ELSE ((q % 25) * Pow2Mod25(49 - Log2Of200th(q))) % 25 >= 13

\* round(x, 2) of a float x >= 0
Round2Pos(x) ==
    LET u == x \div 2
        r == u % 10000
        up == IF r # 5000 THEN r > 5000
              ELSE IF x % 2 = 1 THEN TRUE
              ELSE TieRoundsUp(u)
    IN  2 * 10000 * ((u \div 10000) + (IF up THEN 1 ELSE 0))

\* round(x, 2)
Round2(x) ==
    IF ~isfinite(x) THEN x
    ELSE IF x < 0 THEN -Round2Pos(-x)
    ELSE Round2Pos(x)

\* int(x) of a finite non-negative float
IntOf(x) == (x \div 2) \div Scale

\* values[-1]
Last(s) == s[Len(s)]

\* float(x) if np.isfinite(x) else default
FiniteOr(x, default) == IF isfinite(x) THEN x ELSE default

\* the comparison without its guard on the average
VolumeSpikeUnguarded(current_volume, current_vol_avg) ==
    4 * current_volume * Scale >= 3 * current_vol_avg

\* (current_volume >= current_vol_avg * 1.5) if current_vol_avg > 0 else False
VolumeSpike(current_volume, current_vol_avg) ==
    IF current_vol_avg > 0
    THEN 4 * current_volume * Scale >= 3 * current_vol_avg
    ELSE FALSE

\* the conjunction with the volume criterion left out
AllMetNoVolume(price_above_ema, rsi_in_range, adx_strong, volume_spike) ==
    price_above_ema /\ rsi_in_range /\ adx_strong

\* price_above_ema and rsi_in_range and adx_strong and volume_spike
AllMet(price_above_ema, rsi_in_range, adx_strong, volume_spike) ==
    price_above_ema /\ rsi_in_range /\ adx_strong /\ volume_spike

\* lines 140-161: the four criteria and the result record, from the values
\* lines 126-134 extracted
Evaluate(ticker, current_price, current_ema50, current_rsi, current_adx, current_volume, current_vol_avg) ==
    LET price_above_ema == FGt(current_price, current_ema50)
        rsi_in_range == ToFix(RsiLow) <= current_rsi /\ current_rsi <= ToFix(RsiHigh)
        adx_strong == current_adx > ToFix(AdxMin)
        volume_spike == VolumeSpike(current_volume, current_vol_avg)
        all_met == AllMet(price_above_ema, rsi_in_range, adx_strong, volume_spike)
    IN  [Ticker |-> ticker,
         Price |-> Round2(current_price),
         EMA50 |-> Round2(current_ema50),
         Price_gt_EMA50 |-> price_above_ema,
         RSI14 |-> Round2(current_rsi),
         RSI_50_70 |-> rsi_in_range,
         ADX |-> Round2(current_adx),
         ADX_gt_25 |-> adx_strong,
         Volume |-> current_volume,
         VolAvg20 |-> IntOf(current_vol_avg),
         VolumeSpike |-> volume_spike,
         AllCriteria |-> all_met]

\* lines 112-133: the indicators of a frame of at least 50 bars and their
\* values at the latest bar, before any default is put in
LatestValues(data) ==
    LET ema50 == calculate_ema(data.Close, EmaPeriod)
        rsi14 == calculate_rsi(data.Close, RsiPeriod)
        adx == calculate_adx(data.High, data.Low, data.Close, AdxPeriod)
        vol_avg_20 == rolling_mean(data.Volume, VolPeriod)
    IN  [price |-> ToFix(Last(data.Close)),
         ema50 |-> Last(ema50),
         rsi_last |-> Last(rsi14),
         adx_last |-> Last(adx),
         volume_last |-> Last(data.Volume),
         vol_avg_last |-> Last(vol_avg_20)]

\* lines 126-163: the defaults, the criteria and the record.  int() of a
\* latest volume that is NaN or infinite raises inside the inner try: None.
Extract(ticker, v) ==
    LET current_rsi == FiniteOr(v.rsi_last, ToFix(50))
        current_adx == FiniteOr(v.adx_last, 0)
        current_vol_avg == FiniteOr(v.vol_avg_last, 0)
    IN  IF ~isfinite(v.volume_last) THEN <<>>
        ELSE <<Evaluate(ticker, v.price, v.ema50, current_rsi, current_adx,
                        v.volume_last, current_vol_avg)>>

\* one call of screen_stock(ticker) when yf.download(ticker_symbol) answers
\* raw_data: the latest values it extracted (<<>> when it returned before)
\* and what it returned, <<>> for None and <<r>> for the record r.
\* raw_data.kind is "raise" (the call raises), "none" (None) or "frame" (a
\* frame of Len(raw_data.Close) rows).
screen_stock_run(ticker, raw_data) ==
    IF raw_data.kind = "raise" THEN [latest |-> <<>>, result |-> <<>>]
    ELSE IF raw_data.kind = "none" \/ Len(raw_data.Close) = 0
         THEN [latest |-> <<>>, result |-> <<>>]
    ELSE IF Len(raw_data.Close) < MinBars THEN [latest |-> <<>>, result |-> <<>>]
    ELSE LET v == LatestValues(raw_data)
         IN  [latest |-> v, result |-> Extract(ticker, v)]

\* what screen_stock returns
screen_stock(ticker, raw_data) == screen_stock_run(ticker, raw_data).result

\* ------------------------------------------------------------------------
\* What yf.download can answer: the frames the model draws from
\* ------------------------------------------------------------------------
\* the close every bar has unless the descriptor says otherwise
BaseClose == 10
\* how many rows past MinBars a frame may have
ExtraBars == 1
\* the bar from which an "up" frame has its highs and lows one higher
TrendBars == 8

\* the closes: BaseClose, the first bar `head` higher, the last Len(tail)
\* bars at BaseClose + tail[j] (or NaN, or PosInf, as tail[j] says)
CloseOf(d) ==
    Series([i \in 1..d.n |->
        IF i > d.n - Len(d.tail)
        THEN LET t == d.tail[i - (d.n - Len(d.tail))]
             IN  IF isfinite(t) THEN BaseClose + t ELSE t
        ELSE IF i = 1 THEN BaseClose + d.head
        ELSE BaseClose])

\* "flat": high = low = close; "none": close +- 1; "up": close +- 1, and one
\* higher over the last TrendBars bars.  A NaN close is a NaN row; an
\* infinite close has an infinite high.
HighOf(d) ==
    LET c == CloseOf(d)
    IN  Series([i \in 1..d.n |->
            IF ~isfinite(c[i]) THEN c[i]
            ELSE IF d.trend = "flat" THEN c[i]
            ELSE c[i] + 1 + (IF d.trend = "up" /\ i > d.n - TrendBars THEN 1 ELSE 0)])

LowOf(d) ==
    LET c == CloseOf(d)
    IN  Series([i \in 1..d.n |->
            IF IsNaN(c[i]) THEN NaN
            ELSE IF IsInf(c[i]) THEN BaseClose - 1
            ELSE IF d.trend = "flat" THEN c[i]
            ELSE c[i] - 1 + (IF d.trend = "up" /\ i > d.n - TrendBars THEN 1 ELSE 0)])

\* the volumes: vbase, the bar before the last vmid, the last vlast
VolumeOf(d) ==
    Series([i \in 1..d.n |->
        IF i = d.n THEN d.vlast ELSE IF i = d.n - 1 THEN d.vmid ELSE d.vbase])

\* the raw_data of a descriptor
Frame(d) ==
    IF d.kind # "frame" THEN [kind |-> d.kind]
    ELSE [kind |-> "frame", High |-> HighOf(d), Low |-> LowOf(d),
          Close |-> CloseOf(d), Volume |-> VolumeOf(d)]

CloseTails ==
    {<<>>, <<1>>, <<-1>>, <<-1, 1>>, <<1, 0>>, <<-3, 4>>, <<-3, 5>>,
     <<NaN>>, <<NaN, 0>>, <<PosInf>>, <<PosInf, 0>>}

\* <<vbase, vmid, vlast>>
Volumes ==
    {<<b, m, l>> : b \in {0, 37}, m \in {0, 37, NaN}, l \in {0, 56, 57, 200, NaN}}

\* a frame of n rows with nothing special in it
PlainFrame(n) ==
    [kind |-> "frame", n |-> n, head |-> 0, trend |-> "none", tail |-> <<>>,
     vbase |-> 37, vmid |-> 37, vlast |-> 37]

\* every answer the model draws for one download
Answers ==
    {[kind |-> "raise"], [kind |-> "none"], PlainFrame(0), PlainFrame(MinBars - 1)}
    \cup {[kind |-> "frame", n |-> n, head |-> h, trend |-> t, tail |-> c,
           vbase |-> v[1], vmid |-> v[2], vlast |-> v[3]] :
            n \in MinBars..(MinBars + ExtraBars), h \in {0, 20},
            t \in {"flat", "none", "up"}, c \in CloseTails,
            v \in {w \in Volumes : w[2] = w[1] \/ IsNaN(w[2])}}

\* ------------------------------------------------------------------------
\* State
\* ------------------------------------------------------------------------
VARIABLES
    pc,           \* where the main thread (or the function under call) is
    tickers,      \* screen_stocks' argument, main's resolved list
    market,       \* what yf.download answers for each symbol
    max_workers,  \* the pool's bound
    futures,      \* the futures of line 178, in submission order
    yielded,      \* the futures as_completed has handed to the loop
    results,      \* the list of line 172
    completed,    \* the counter of line 179
    df,           \* the table of line 195 (main's all_results)
    passed,       \* the table of lines 197/201
    config,       \* main: the parsed arguments and what they name
    exit_code,    \* main: the value returned, -1 until then
    written,      \* main: the arguments whose file has been written
    called,       \* main: screen_stocks has been called
    arg,          \* the argument of the function under call
    ret,          \* what it returned
    latest        \* screen_stock: the values of lines 126-133, as extracted

vars == <<pc, tickers, market, max_workers, futures, yielded, results,
          completed, df, passed, config, exit_code, written, called, arg, ret,
          latest>>

poolVars == <<tickers, market, max_workers, futures, yielded, results, completed>>
mainVars == <<config, exit_code, written, called>>
callVars == <<arg, ret, latest>>

\* the ticker strings the model draws from: "TCS", "TCS.NS", "INFY" and
\* the empty string, and the symbols they are downloaded under
TickerSeq == <<<<"TCS", FALSE>>, <<"TCS", TRUE>>, <<"INFY", FALSE>>, <<"", FALSE>>>>
AllTickers == {TickerSeq[k] : k \in 1..Len(TickerSeq)}
Tickers == AllTickers \ {<<"", FALSE>>}
Symbols == {ticker_symbol(t) : t \in AllTickers}

MaxTickers == 3
MaxWorkers == 3

TickerLists(n) == UNION {[1..k -> Tickers] : k \in 0..n}

\* the answers the pool is run against, one of each outcome: the call
\* raises, no data, 49 rows, a latest volume int() cannot take, a frame
\* that meets every criterion, a frame that does not
PassFrame ==
    [kind |-> "frame", n |-> MinBars, head |-> 0, trend |-> "up", tail |-> <<-1, 1>>,
     vbase |-> 37, vmid |-> 37, vlast |-> 200]
PartialFrame == PlainFrame(MinBars)
BadVolumeFrame ==
    [kind |-> "frame", n |-> MinBars, head |-> 0, trend |-> "up", tail |-> <<-1, 1>>,
     vbase |-> 37, vmid |-> 37, vlast |-> NaN]
PoolAnswers ==
    <<[kind |-> "raise"], [kind |-> "none"], PlainFrame(MinBars - 1),
      BadVolumeFrame, PassFrame, PartialFrame>>

\* the market: which of PoolAnswers each symbol's download gets
Markets == [Symbols -> 1..Len(PoolAnswers)]
AnswerFor(mkt, t) == PoolAnswers[mkt[ticker_symbol(t)]]

\* screen_stock(t) under each answer, computed once: row
\* (k-1)*Len(PoolAnswers) + a is ticker k under answer a
ScreenTable ==
    Series([r \in 1..(Len(TickerSeq) * Len(PoolAnswers)) |->
        screen_stock(TickerSeq[((r - 1) \div Len(PoolAnswers)) + 1],
                     Frame(PoolAnswers[((r - 1) % Len(PoolAnswers)) + 1]))])

\* the value screen_stock(t) returns in market mkt
Screened(mkt, t) ==
    LET k == CHOOSE j \in 1..Len(TickerSeq) : TickerSeq[j] = t
    IN  ScreenTable[(k - 1) * Len(PoolAnswers) + mkt[ticker_symbol(t)]]

Range(s) == {s[i] : i \in 1..Len(s)}
Count(s, r) == Cardinality({i \in 1..Len(s) : s[i] = r})

\* ------------------------------------------------------------------------
\* screen_stocks: the pool
\* ------------------------------------------------------------------------
\* a submission loop that stops at the pool's bound
ToSubmitBounded(ts, workers) == IF Len(ts) < workers THEN Len(ts) ELSE workers

\* line 178 submits every ticker, whatever the pool's bound
ToSubmit(ts, workers) == Len(ts)

\* a collector that a failed ticker makes start over
AddResultAborting(rs, result) == IF result # <<>> THEN Append(rs, result[1]) ELSE <<>>

\* lines 185-186: if result: results.append(result)
AddResult(rs, result) == IF result # <<>> THEN Append(rs, result[1]) ELSE rs

IsPassed(r) == r.AllCriteria

\* the table returned as it is
PassedOfUnfiltered(table) == table

\* lines 196-201: df[df['AllCriteria']] if len(df) > 0 else df
PassedOf(table) == IF Len(table) > 0 THEN SelectSeq(table, IsPassed) ELSE table

Running == {i \in 1..Len(futures) : futures[i].state = "RUNNING"}

Init ==
    /\ pc = "submit"
    /\ tickers \in TickerLists(MaxTickers)
    /\ market \in {m \in Markets : m[<<"", TRUE>>] = 1}
    /\ max_workers \in 1..MaxWorkers
    /\ futures = <<>>
    /\ yielded = {}
    /\ results = <<>>
    /\ completed = 0
    /\ df = <<>>
    /\ passed = <<>>
    /\ config = <<>>
    /\ exit_code = -1
    /\ written = {}
    /\ called = TRUE
    /\ arg = <<>>
    /\ ret = <<>>
    /\ latest = <<>>

\* line 178: executor.submit(screen_stock, t, period) for the next ticker
Submit ==
    /\ pc = "submit"
    /\ Len(futures) < ToSubmit(tickers, max_workers)
    /\ futures' = Append(futures, [state |-> "PENDING", result |-> <<>>])
    /\ UNCHANGED <<pc, tickers, market, max_workers, yielded, results, completed,
                   df, passed, mainVars, callVars>>

\* lines 179-180: every ticker is submitted; the loop over as_completed starts
BeginCollect ==
    /\ pc = "submit"
    /\ Len(futures) = ToSubmit(tickers, max_workers)
    /\ pc' = "collect"
    /\ UNCHANGED <<poolVars, df, passed, mainVars, callVars>>

\* a pool thread takes the oldest queued work item; there are at most
\* max_workers threads
Start(i) ==
    /\ futures[i].state = "PENDING"
    /\ \A j \in 1..(i - 1) : futures[j].state # "PENDING"
    /\ Cardinality(Running) < max_workers
    /\ futures' = [futures EXCEPT ![i].state = "RUNNING"]
    /\ UNCHANGED <<pc, tickers, market, max_workers, yielded, results, completed,
                   df, passed, mainVars, callVars>>

\* a worker that appends its record to the shared list itself
FinishAppending(i) ==
    /\ futures[i].state = "RUNNING"
    /\ futures' = [futures EXCEPT ![i] =
                      [state |-> "FINISHED", result |-> Screened(market, tickers[i])]]
    /\ results' = IF Screened(market, tickers[i]) # <<>>
                  THEN Append(results, Screened(market, tickers[i])[1])
                  ELSE results
    /\ UNCHANGED <<pc, tickers, market, max_workers, yielded, completed,
                   df, passed, mainVars, callVars>>

\* the pool thread runs screen_stock to its return and sets the future's
\* result; screen_stock touches nothing the threads share
Finish(i) ==
    /\ futures[i].state = "RUNNING"
    /\ futures' = [futures EXCEPT ![i] =
                      [state |-> "FINISHED", result |-> Screened(market, tickers[i])]]
    /\ UNCHANGED <<pc, tickers, market, max_workers, yielded, results, completed,
                   df, passed, mainVars, callVars>>

\* lines 180-191: as_completed yields a finished future; the main thread
\* counts it and appends its record, if it has one
Collect(i) ==
    /\ pc = "collect"
    /\ futures[i].state = "FINISHED"
    /\ i \notin yielded
    /\ yielded' = yielded \cup {i}
    /\ completed' = completed + 1
    /\ results' = AddResult(results, futures[i].result)
    /\ UNCHANGED <<pc, tickers, market, max_workers, futures, df, passed,
                   mainVars, callVars>>

\* lines 195-203: every future has been yielded; the two tables are built
\* and returned
Return ==
    /\ pc = "collect"
    /\ yielded = 1..Len(futures)
    /\ df' = results
    /\ passed' = PassedOf(results)
    /\ pc' = "returned"
    /\ UNCHANGED <<poolVars, mainVars, callVars>>

Next ==
    \/ Submit
    \/ BeginCollect
    \/ \E i \in 1..Len(futures) : Start(i)
    \/ \E i \in 1..Len(futures) : Finish(i)
    \/ \E i \in 1..Len(futures) : Collect(i)
    \/ Return

Spec == Init /\ [][Next]_vars

\* ------------------------------------------------------------------------
\* screen_stock, called once
\* ------------------------------------------------------------------------
\* nothing else is running
idle ==
    /\ tickers = <<>>
    /\ market = <<>>
    /\ max_workers = 0
    /\ futures = <<>>
    /\ yielded = {}
    /\ results = <<>>
    /\ completed = 0
    /\ df = <<>>
    /\ passed = <<>>
    /\ config = <<>>
    /\ exit_code = -1
    /\ written = {}
    /\ called = FALSE
    /\ latest = <<>>

InitScreen ==
    /\ pc = "call"
    /\ arg \in {[ticker |-> t, answer |-> a] : t \in {<<"TCS", FALSE>>}, a \in Answers}
                \cup {[ticker |-> t, answer |-> PoolAnswers[a]] :
                        t \in AllTickers, a \in 1..Len(PoolAnswers)}
    /\ ret = <<>>
    /\ idle

\* lines 83-167: the whole call
CallScreenStock ==
    /\ pc = "call"
    /\ \E run \in {screen_stock_run(arg.ticker, Frame(arg.answer))} :
           /\ ret' = run.result
           /\ latest' = run.latest
    /\ pc' = "done"
    /\ UNCHANGED <<arg, poolVars, df, passed, mainVars>>

NextScreen == CallScreenStock

SpecScreen == InitScreen /\ [][NextScreen]_vars

\* ------------------------------------------------------------------------
\* calculate_rsi, called once
\* ------------------------------------------------------------------------
\* the longest series calculate_rsi is called with
RsiMaxLen == 5
\* the largest period it is called with
RsiMaxPeriod == 3

RsiPrices == {BaseClose - 1, BaseClose, BaseClose + 2}

InitRsi ==
    /\ pc = "call"
    /\ arg \in {[series |-> s, period |-> p] :
                  s \in UNION {[1..n -> RsiPrices] : n \in 0..RsiMaxLen},
                  p \in 2..RsiMaxPeriod}
    /\ ret = <<>>
    /\ idle

\* lines 37-44: the whole call
CallRsi ==
    /\ pc = "call"
    /\ ret' = calculate_rsi(arg.series, arg.period)
    /\ pc' = "done"
    /\ UNCHANGED <<arg, latest, poolVars, df, passed, mainVars>>

NextRsi == CallRsi

SpecRsi == InitRsi /\ [][NextRsi]_vars

\* ------------------------------------------------------------------------
\* calculate_adx, called once
\* ------------------------------------------------------------------------
\* the longest frame calculate_adx is called with
AdxMaxLen == 3
\* the largest period it is called with
AdxMaxPeriod == 2

\* the bars: <<high, low>> with high >= low; the close is the low
AdxBars ==
    {b \in {BaseClose - 2, BaseClose, BaseClose + 2} \X
           {BaseClose - 2, BaseClose, BaseClose + 2} : b[1] >= b[2]}

InitAdx ==
    /\ pc = "call"
    /\ arg \in {[high |-> [i \in 1..Len(bars) |-> bars[i][1]],
                 low |-> [i \in 1..Len(bars) |-> bars[i][2]],
                 close |-> [i \in 1..Len(bars) |-> bars[i][2]],
                 period |-> p] :
                  bars \in UNION {[1..n -> AdxBars] : n \in 1..AdxMaxLen},
                  p \in 1..AdxMaxPeriod}
    /\ ret = <<>>
    /\ idle

\* lines 47-70: the whole call, with the two directional movements of
\* lines 49-54 kept beside the value returned
CallAdx ==
    /\ pc = "call"
    /\ ret' = [plus_dm |-> plus_dm(arg.high, arg.low),
               minus_dm |-> minus_dm(arg.high, arg.low),
               adx |-> calculate_adx(arg.high, arg.low, arg.close, arg.period)]
    /\ pc' = "done"
    /\ UNCHANGED <<arg, latest, poolVars, df, passed, mainVars>>

NextAdx == CallAdx

SpecAdx == InitAdx /\ [][NextAdx]_vars

\* ------------------------------------------------------------------------
\* main
\* ------------------------------------------------------------------------
\* A piece of text is <<name, suffixed, padded>>: a ticker string with or
\* without blanks around it.  str.strip() of a piece is the ticker
\* <<name, suffixed>>; the empty ticker is falsy.
strip(piece) == <<piece[1], piece[2]>>
IsEmptyString(t) == t = <<"", FALSE>>

\* args.tickers is the sequence of its comma-separated pieces, <<>> for
\* None; the empty string is the one empty piece
TickersArgs ==
    {<<>>, <<<<"", FALSE, FALSE>>>>, <<<<"TCS", FALSE, FALSE>>>>,
     <<<<"TCS", TRUE, TRUE>>, <<"INFY", FALSE, TRUE>>>>,
     <<<<"", FALSE, FALSE>>, <<"", FALSE, TRUE>>>>}

\* bool(args.tickers)
TickersGiven(tickers_arg) ==
    tickers_arg # <<>> /\ tickers_arg # <<<<"", FALSE, FALSE>>>>

\* [t.strip() for t in args.tickers.split(',')]
SplitTickers(tickers_arg) == [i \in 1..Len(tickers_arg) |-> strip(tickers_arg[i])]

\* args.tickers_file: "None", the empty string or a path
TickersFiles == {"None", "", "tickers.txt"}

\* bool(args.tickers_file)
FileGiven(tickers_file) == tickers_file \notin {"None", ""}

\* the lines of the file
FileLines ==
    {<<>>, <<<<"", FALSE, TRUE>>>>,
     <<<<"", FALSE, FALSE>>, <<"TCS", FALSE, TRUE>>, <<"INFY", FALSE, FALSE>>>>}

KeepLine(piece) == ~IsEmptyString(strip(piece))

\* [line.strip() for line in f if line.strip()]
ReadTickers(lines) ==
    LET kept == SelectSeq(lines, KeepLine)
    IN  [i \in 1..Len(kept) |-> strip(kept[i])]

\* SAMPLE_NIFTY500_TICKERS, when it can be imported
SampleLists == {<<>>, <<<<"TCS", FALSE>>, <<"INFY", FALSE>>>>}

Configs ==
    [sample : BOOLEAN, importable : BOOLEAN, sample_list : SampleLists,
     tickers : TickersArgs, tickers_file : TickersFiles, readable : BOOLEAN,
     lines : FileLines, workers : 1..MaxWorkers, output_passed : BOOLEAN]

\* the tickers resolved without the check of lines 244-246
ResolveTickersNoEmptyCheck(cfg) ==
    IF cfg.sample
    THEN IF cfg.importable THEN [ok |-> TRUE, tickers |-> cfg.sample_list]
         ELSE [ok |-> FALSE, tickers |-> <<>>]
    ELSE IF TickersGiven(cfg.tickers)
    THEN [ok |-> TRUE, tickers |-> SplitTickers(cfg.tickers)]
    ELSE IF FileGiven(cfg.tickers_file)
    THEN IF cfg.readable THEN [ok |-> TRUE, tickers |-> ReadTickers(cfg.lines)]
         ELSE [ok |-> FALSE, tickers |-> <<>>]
    ELSE [ok |-> FALSE, tickers |-> <<>>]

\* lines 218-246: the tickers main resolves; ok is FALSE where it returns 1
ResolveTickers(cfg) ==
    LET found ==
            IF cfg.sample
            THEN IF cfg.importable THEN [ok |-> TRUE, tickers |-> cfg.sample_list]
                 ELSE [ok |-> FALSE, tickers |-> <<>>]
            ELSE IF TickersGiven(cfg.tickers)
            THEN [ok |-> TRUE, tickers |-> SplitTickers(cfg.tickers)]
            ELSE IF FileGiven(cfg.tickers_file)
            THEN IF cfg.readable THEN [ok |-> TRUE, tickers |-> ReadTickers(cfg.lines)]
                 ELSE [ok |-> FALSE, tickers |-> <<>>]
            ELSE [ok |-> FALSE, tickers |-> <<>>]
    IN  IF found.ok /\ found.tickers = <<>> THEN [ok |-> FALSE, tickers |-> <<>>]
        ELSE found

\* the markets main is run in
MainMarkets ==
    {m \in Markets : m[<<"TCS", TRUE>>] \in {1, 5} /\ m[<<"INFY", TRUE>>] = 6
                     /\ m[<<"", TRUE>>] = 1}

InitMain ==
    /\ pc = "main"
    /\ config \in Configs
    /\ market \in MainMarkets
    /\ tickers = <<>>
    /\ max_workers = 0
    /\ futures = <<>>
    /\ yielded = {}
    /\ results = <<>>
    /\ completed = 0
    /\ df = <<>>
    /\ passed = <<>>
    /\ exit_code = -1
    /\ written = {}
    /\ called = FALSE
    /\ arg = <<>>
    /\ ret = <<>>
    /\ latest = <<>>

\* lines 218-249: the tickers are collected; main returns 1, or calls
\* screen_stocks(tickers, max_workers=args.workers)
MainCollect ==
    /\ pc = "main"
    /\ LET found == ResolveTickers(config)
       IN  IF found.ok
           THEN /\ tickers' = found.tickers
                /\ max_workers' = config.workers
                /\ called' = TRUE
                /\ pc' = "submit"
                /\ UNCHANGED exit_code
           ELSE /\ exit_code' = 1
                /\ pc' = "exit"
                /\ UNCHANGED <<tickers, max_workers, called>>
    /\ UNCHANGED <<market, futures, yielded, results, completed, df, passed,
                   config, written, callVars>>

\* lines 252-262: screen_stocks has returned; the tables are written and
\* main returns 0
MainSave ==
    /\ pc = "returned"
    /\ written' = IF Len(df) > 0
                  THEN IF config.output_passed /\ Len(passed) > 0
                       THEN {"output", "output_passed"}
                       ELSE {"output"}
                  ELSE {}
    /\ exit_code' = 0
    /\ pc' = "exit"
    /\ UNCHANGED <<poolVars, df, passed, config, called, callVars>>

NextMain ==
    \/ MainCollect
    \/ Submit
    \/ BeginCollect
    \/ \E i \in 1..Len(futures) : Start(i)
    \/ \E i \in 1..Len(futures) : Finish(i)
    \/ \E i \in 1..Len(futures) : Collect(i)
    \/ Return
    \/ MainSave

SpecMain == InitMain /\ [][NextMain]_vars

\* ------------------------------------------------------------------------
\* Claims
\* ------------------------------------------------------------------------
\* the outcome of a download is a success: a frame of at least 50 bars whose
\* indicators and latest values can be extracted
Succeeds(answer) ==
    answer.kind = "frame" /\ answer.n >= MinBars /\ isfinite(answer.vlast)

RecordsFor(table, t) == {i \in 1..Len(table) : table[i].Ticker = t}

SameRecords(a, b) == \A r \in Range(a) \cup Range(b) : Count(a, r) = Count(b, r)

\* C1: whatever the tickers and whatever each download does (raises, no
\* data, fewer than 50 bars, a failing extraction, a success), screen_stocks
\* is never stuck before it returns, and the table it returns has one record
\* for every entry of the list whose pipeline succeeded and none for any
\* other: a failed ticker costs no sibling its record.
C1_FailureIsolation ==
    /\ pc # "returned" => ENABLED Next
    /\ pc = "returned" =>
          /\ completed = Len(tickers)
          /\ \A t \in Tickers :
                Cardinality(RecordsFor(df, t)) =
                Cardinality({i \in 1..Len(tickers) :
                                tickers[i] = t /\ Succeeds(AnswerFor(market, t))})

\* a run of two tickers, the first raising and the second succeeding, that
\* returned the second's record alone
C1_Witness ==
    /\ pc = "returned"
    /\ Len(tickers) = 2
    /\ AnswerFor(market, tickers[1]).kind = "raise"
    /\ Succeeds(AnswerFor(market, tickers[2]))
    /\ Len(df) = 1
    /\ df[1].Ticker = tickers[2]

\* the records of the tickers, one after the other in the order of the list
RECURSIVE InOrder(_, _, _)
InOrder(ts, mkt, k) ==
    IF k = 0 THEN <<>>
    ELSE LET r == Screened(mkt, ts[k])
         IN  IF r = <<>> THEN InOrder(ts, mkt, k - 1)
             ELSE Append(InOrder(ts, mkt, k - 1), r[1])

\* C2: for a fixed list and fixed downloads, the table returned holds the
\* same records, with the same values and flags, whatever max_workers is and
\* however the workers and the collector interleave: the records of the
\* tickers taken one after the other, in some order.
C2_SameRecordsForAnyWorkers ==
    pc = "returned" =>
        /\ SameRecords(df, InOrder(tickers, market, Len(tickers)))
        /\ SameRecords(passed, PassedOf(InOrder(tickers, market, Len(tickers))))

\* a run with as many workers as tickers whose rows came out of list order
C2_Witness ==
    /\ pc = "returned"
    /\ Len(tickers) >= 2
    /\ max_workers = Len(tickers)
    /\ Len(df) = Len(tickers)
    /\ df # InOrder(tickers, market, Len(tickers))

\* C3: at every return the passed table holds exactly the records of the
\* all-results table whose AllCriteria flag is true, as often as they occur
\* there; it is empty when the all-results table is.
C3_PassedIsTheFlagged ==
    pc = "returned" =>
        /\ \A r \in Range(df) \cup Range(passed) :
              Count(passed, r) = IF r.AllCriteria THEN Count(df, r) ELSE 0
        /\ (df = <<>> => passed = <<>>)

\* a return where some records passed and some did not
C3_Witness ==
    /\ pc = "returned"
    /\ Len(passed) >= 1
    /\ Len(passed) < Len(df)

\* C6: every change of the result list is one append by the collecting
\* thread, of the record of one finished future it is handed at that step;
\* no step of a worker changes the list.
C6_SingleCollector ==
    [][results' # results =>
          /\ pc = "collect"
          /\ futures' = futures
          /\ \E i \in 1..Len(futures) :
                /\ i \notin yielded
                /\ yielded' = yielded \cup {i}
                /\ futures[i].state = "FINISHED"
                /\ futures[i].result # <<>>
                /\ results' = Append(results, futures[i].result[1])]_vars

\* a record has been collected while two workers are running
C6_Witness ==
    /\ Len(results) >= 1
    /\ Cardinality(Running) >= 2

\* C4: in every record screen_stock returns, AllCriteria is true exactly
\* when Price>EMA50, RSI_50_70, ADX>25 and VolumeSpike are all true.
C4_AllCriteriaIsTheConjunction ==
    (pc = "done" /\ ret # <<>>) =>
        (ret[1].AllCriteria <=>
            (ret[1].Price_gt_EMA50 /\ ret[1].RSI_50_70 /\ ret[1].ADX_gt_25
             /\ ret[1].VolumeSpike))

\* a record with every flag true but VolumeSpike
C4_Witness ==
    /\ pc = "done"
    /\ ret # <<>>
    /\ ret[1].Price_gt_EMA50 /\ ret[1].RSI_50_70 /\ ret[1].ADX_gt_25
    /\ ~ret[1].VolumeSpike
    /\ ~ret[1].AllCriteria

\* the last VolPeriod volumes of the frame downloaded
LastVolumes == 
    LET v == VolumeOf(arg.answer)
    IN  [j \in 1..VolPeriod |-> v[Len(v) - VolPeriod + j]]

\* C5: in every record, VolumeSpike is false when the average of the last 20
\* volumes is 0 or is not finite (and then reported as 0); when it is
\* greater than 0, VolumeSpike is true exactly when the latest volume is at
\* least 1.5 times it, that is 40 * volume >= 3 * (the sum of the 20).
C5_VolumeSpikeGuard ==
    (pc = "done" /\ ret # <<>>) =>
        IF \E j \in 1..VolPeriod : ~isfinite(LastVolumes[j])
        THEN ~ret[1].VolumeSpike /\ ret[1].VolAvg20 = 0
        ELSE LET total == SumRange(LastVolumes, 1, VolPeriod)
             IN  IF total = 0 THEN ~ret[1].VolumeSpike
                 ELSE ret[1].VolumeSpike <=> (40 * ret[1].Volume >= 3 * total)

\* a record whose volume average was not finite, with a large latest volume
C5_Witness ==
    /\ pc = "done"
    /\ ret # <<>>
    /\ IsNaN(latest.vol_avg_last)
    /\ ret[1].Volume = 200
    /\ ret[1].VolAvg20 = 0
    /\ ~ret[1].VolumeSpike

ArgumentError(cfg) ==
    \* no ticker source given
    \/ /\ ~cfg.sample
       /\ cfg.tickers \in {<<>>, <<<<"", FALSE, FALSE>>>>}
       /\ cfg.tickers_file \in {"None", ""}
    \* the ticker file it has to read is unreadable
    \/ /\ ~cfg.sample
       /\ cfg.tickers \in {<<>>, <<<<"", FALSE, FALSE>>>>}
       /\ cfg.tickers_file \notin {"None", ""}
       /\ ~cfg.readable
    \* the list resolved is empty
    \/ /\ cfg.sample /\ cfg.importable /\ cfg.sample_list = <<>>
    \/ /\ ~cfg.sample
       /\ cfg.tickers \in {<<>>, <<<<"", FALSE, FALSE>>>>}
       /\ cfg.tickers_file \notin {"None", ""}
       /\ cfg.readable
       /\ \A i \in 1..Len(cfg.lines) : cfg.lines[i][1] = "" /\ ~cfg.lines[i][2]

\* C7: when no ticker source is given, the ticker file to read is
\* unreadable or the list resolved is empty, main goes from its start to
\* its exit with code 1: screen_stocks is never called, nothing is
\* submitted or downloaded and no file is written.
C7_ConfigErrorExitsFirst ==
    ArgumentError(config) =>
        /\ pc \in {"main", "exit"}
        /\ ~called
        /\ futures = <<>>
        /\ written = {}
        /\ (pc = "exit" => exit_code = 1)

\* main has exited on a readable file that holds blank lines only
C7_Witness ==
    /\ pc = "exit"
    /\ exit_code = 1
    /\ ~config.sample
    /\ config.tickers = <<>>
    /\ config.tickers_file = "tickers.txt"
    /\ config.readable
    /\ config.lines = <<<<"", FALSE, TRUE>>>>

\* C8: for a constant price series, every value calculate_rsi defines is
\* the neutral 50.
C8_ConstantSeriesGives50 ==
    (pc = "done" /\ \A i \in 1..Len(arg.series) : arg.series[i] = arg.series[1]) =>
        \A i \in 1..Len(ret) : ~IsNaN(ret[i]) => ret[i] = ToFix(50)

\* C9: at every step i >= 1, with upMove and downMove the raw deltas, the
\* negative movement is downMove if downMove > upMove and downMove > 0 and 0
\* otherwise, the positive movement is upMove if upMove > downMove and
\* upMove > 0 and 0 otherwise; both are 0 when upMove = downMove > 0.
C9_DirectionalMovementRule ==
    pc = "done" =>
        \A i \in 2..Len(arg.high) :
            LET upMove == arg.high[i] - arg.high[i - 1]
                downMove == arg.low[i - 1] - arg.low[i]
            IN  /\ ret.plus_dm[i] =
                      IF upMove > downMove /\ upMove > 0 THEN upMove ELSE 0
                /\ ret.minus_dm[i] =
                      IF downMove > upMove /\ downMove > 0 THEN downMove ELSE 0

\* C10: when the frame has at least 50 bars and an indicator is not finite
\* at the latest bar, screen_stock returns a record: a momentum that is not
\* finite is reported as 50.0 with RSI_50_70 true, a trend strength that is
\* not finite as 0.0 with ADX>25 false, a volume average that is not finite
\* as 0 with VolumeSpike false.
C10_NeutralDefaults ==
    (/\ pc = "done"
     /\ arg.answer.kind = "frame"
     /\ arg.answer.n >= MinBars
     /\ \/ ~isfinite(latest.rsi_last)
        \/ ~isfinite(latest.adx_last)
        \/ ~isfinite(latest.vol_avg_last)) =>
        /\ ret # <<>>
        /\ ~isfinite(latest.rsi_last) =>
              ret[1].RSI14 = ToFix(50) /\ ret[1].RSI_50_70
        /\ ~isfinite(latest.adx_last) =>
              ret[1].ADX = 0 /\ ~ret[1].ADX_gt_25
        /\ ~isfinite(latest.vol_avg_last) =>
              ret[1].VolAvg20 = 0 /\ ~ret[1].VolumeSpike

====
